---- MODULE Spec2Model ----
(***************************************************************************)
(* A model of build_json.py: the index builder that scans                  *)
(* result/result_<lang>/html/video<n>/case<m>.html and writes index.json.  *)
(*                                                                         *)
(* A file name is a sequence of one-character strings, so that the globs,  *)
(* the regular expressions, int() and str() are computed character by      *)
(* character.  A path is a sequence of names, relative to --root.  The     *)
(* file system is a function from the paths that exist to "dir" or "file". *)
(* pathlib is modelled in its POSIX flavour (the script's shebang line):   *)
(* glob patterns match case-sensitively and paths sort by code point.      *)
(***************************************************************************)
EXTENDS Integers, Sequences, FiniteSets, TLC

\* ------------------------------------------------------------ characters

Digits == <<"0", "1", "2", "3", "4", "5", "6", "7", "8", "9">>

Uppers == <<"A", "B", "C", "D", "E", "F", "G", "H", "I", "J", "K", "L", "M",
            "N", "O", "P", "Q", "R", "S", "T", "U", "V", "W", "X", "Y", "Z">>

Lowers == <<"a", "b", "c", "d", "e", "f", "g", "h", "i", "j", "k", "l", "m",
            "n", "o", "p", "q", "r", "s", "t", "u", "v", "w", "x", "y", "z">>

Range(s) == {s[i] : i \in DOMAIN s}

IndexOf(c, s) == CHOOSE i \in DOMAIN s : s[i] = c

\* re's \d on the ASCII names of the model.
IsDigit(c) == c \in Range(Digits)

\* The code point of a character: what sorted() compares names by.
Ord(c) ==
    IF c \in Range(Digits) THEN 47 + IndexOf(c, Digits)
    ELSE IF c \in Range(Uppers) THEN 64 + IndexOf(c, Uppers)
    ELSE IF c \in Range(Lowers) THEN 96 + IndexOf(c, Lowers)
    ELSE IF c = "\n" THEN 10
    ELSE IF c = "." THEN 46
    ELSE IF c = "/" THEN 47
    ELSE IF c = "_" THEN 95
    ELSE 0

\* re.IGNORECASE compares letters by their lower-case form.
Lower(c) == IF c \in Range(Uppers) THEN Lowers[IndexOf(c, Uppers)] ELSE c

LowerName(s) == [i \in DOMAIN s |-> Lower(s[i])]

Min(a, b) == IF a <= b THEN a ELSE b

\* str < str of Python, on names: the first differing character decides,
\* and a proper prefix is smaller.
LexLess(a, b) ==
    \E i \in 1..(Min(Len(a), Len(b)) + 1) :
        /\ \A j \in 1..(i - 1) : a[j] = b[j]
        /\ \/ i = Len(a) + 1 /\ i <= Len(b)
           \/ i <= Len(a) /\ i <= Len(b) /\ Ord(a[i]) < Ord(b[i])

\* int(m.group(1)): the decimal value of a run of digits; leading zeros
\* do not count.
RECURSIVE ParseInt(_)
ParseInt(ds) ==
    IF ds = <<>> THEN 0
    ELSE 10 * ParseInt(SubSeq(ds, 1, Len(ds) - 1))
         + (IndexOf(ds[Len(ds)], Digits) - 1)

\* str(k): the decimal digits of a non-negative integer.
RECURSIVE Str(_)
Str(n) ==
    IF n < 10 THEN <<Digits[n + 1]>>
    ELSE Str(n \div 10) \o <<Digits[(n % 10) + 1]>>

\* PurePath.as_posix(): the parts joined by "/".
RECURSIVE as_posix(_)
as_posix(parts) ==
    IF parts = <<>> THEN <<>>
    ELSE IF Len(parts) = 1 THEN parts[1]
    ELSE parts[1] \o <<"/">> \o as_posix(Tail(parts))

\* ------------------------------------------------- the regular expressions

\* "$" without re.MULTILINE: at the end of the string, or just before a
\* newline that ends the string.
EndAnchor(s, i) == i = Len(s) + 1 \/ (i = Len(s) /\ s[i] = "\n")

\* The end (exclusive) of the greedy digit run that starts at i.
RECURSIVE DigitRunEnd(_, _)
DigitRunEnd(s, i) ==
    IF i <= Len(s) /\ IsDigit(s[i]) THEN DigitRunEnd(s, i + 1) ELSE i

VideoLiteral == <<"v", "i", "d", "e", "o">>

CaseLiteral == <<"c", "a", "s", "e">>

HtmlLiteral == <<".", "h", "t", "m", "l">>

NoMatch == <<>>

\* VIDEO_DIR_RE.search(name): the leftmost place where "video", one or
\* more digits and "$" match; the result is group(1), or NoMatch.
VideoMatchAt(name, i) ==
    LET d == i + Len(VideoLiteral)
        e == DigitRunEnd(name, d)
    IN  /\ d - 1 <= Len(name)
        /\ SubSeq(name, i, d - 1) = VideoLiteral
        /\ e > d
        /\ EndAnchor(name, e)

\* VIDEO_DIR_RE with the "$" left out: "video" and digits anywhere.
VIDEO_DIR_RE_noAnchor(name) ==
    LET hits == {i \in 1..Len(name) :
                    /\ i + Len(VideoLiteral) - 1 <= Len(name)
                    /\ SubSeq(name, i, i + Len(VideoLiteral) - 1) = VideoLiteral
                    /\ DigitRunEnd(name, i + Len(VideoLiteral)) > i + Len(VideoLiteral)}
    IN  IF hits = {} THEN NoMatch
        ELSE LET i == CHOOSE h \in hits : \A g \in hits : h <= g
                 d == i + Len(VideoLiteral)
             IN  SubSeq(name, d, DigitRunEnd(name, d) - 1)

VIDEO_DIR_RE(name) ==
    LET hits == {i \in 1..Len(name) : VideoMatchAt(name, i)}
    IN  IF hits = {} THEN NoMatch
        ELSE LET i == CHOOSE h \in hits : \A g \in hits : h <= g
                 d == i + Len(VideoLiteral)
             IN  SubSeq(name, d, DigitRunEnd(name, d) - 1)

\* CASE_FILE_RE.search(name), with re.IGNORECASE: "case", one or more
\* digits, ".html" and "$", letters compared in lower case.
CaseMatchAt(name, i) ==
    LET d == i + Len(CaseLiteral)
        e == DigitRunEnd(name, d)
        f == e + Len(HtmlLiteral)
    IN  /\ d - 1 <= Len(name)
        /\ LowerName(SubSeq(name, i, d - 1)) = CaseLiteral
        /\ e > d
        /\ f - 1 <= Len(name)
        /\ LowerName(SubSeq(name, e, f - 1)) = HtmlLiteral
        /\ EndAnchor(name, f)

CASE_FILE_RE(name) ==
    LET hits == {i \in 1..Len(name) : CaseMatchAt(name, i)}
    IN  IF hits = {} THEN NoMatch
        ELSE LET i == CHOOSE h \in hits : \A g \in hits : h <= g
                 d == i + Len(CaseLiteral)
             IN  SubSeq(name, d, DigitRunEnd(name, d) - 1)

\* ------------------------------------------------------- the file system

Exists(f, p) == p \in DOMAIN f

IsDir(f, p) == p \in DOMAIN f /\ f[p] = "dir"

IsFile(f, p) == p \in DOMAIN f /\ f[p] = "file"

Parent(p) == SubSeq(p, 1, Len(p) - 1)

Name(p) == p[Len(p)]

IsPrefix(a, p) == Len(a) <= Len(p) /\ SubSeq(p, 1, Len(a)) = a

\* html.relative_to(anc): the parts of the path below anc.
RelativeTo(p, anc) == SubSeq(p, Len(anc) + 1, Len(p))

\* fnmatch of a pattern pre*suf, case-sensitive.
FnMatch(name, pre, suf) ==
    /\ Len(name) >= Len(pre) + Len(suf)
    /\ SubSeq(name, 1, Len(pre)) = pre
    /\ SubSeq(name, Len(name) - Len(suf) + 1, Len(name)) = suf

\* dir.glob(pre*suf): the names of the entries of dir that match; nothing
\* when dir is not a directory.
Glob(f, dir, pre, suf) ==
    IF ~IsDir(f, dir) THEN {}
    ELSE {Name(p) : p \in {q \in DOMAIN f : /\ Len(q) = Len(dir) + 1
                                           /\ Parent(q) = dir
                                           /\ FnMatch(Name(q), pre, suf)}}

\* sorted(...) of the paths of one directory: by name.
RECURSIVE Sorted(_)
Sorted(S) ==
    IF S = {} THEN <<>>
    ELSE LET m == CHOOSE x \in S : \A y \in S \ {x} : LexLess(x, y)
         IN  <<m>> \o Sorted(S \ {m})

\* ------------------------------------------------------------ scan_language

EmptyMap == [k \in {} |-> <<>>]

\* The body of the loop over case*.html of one video directory.
RECURSIVE ScanCases(_, _, _, _)
ScanCases(f, base_dir, video_dir, names) ==
    IF names = <<>> THEN <<>>
    ELSE LET html   == video_dir \o <<Head(names)>>
             m_case == CASE_FILE_RE(Head(names))
             rest   == ScanCases(f, base_dir, video_dir, Tail(names))
         IN  IF ~IsFile(f, html) THEN rest
             ELSE IF m_case = NoMatch THEN rest
             ELSE <<[case     |-> ParseInt(m_case),
                     filename |-> Head(names),
                     relpath  |-> as_posix(RelativeTo(html,
                                      Parent(Parent(base_dir))))]>> \o rest

\* A sort by case number that is not stable: a record goes before the
\* records of its own case number.
RECURSIVE SortByCase_unstable(_)
SortByCase_unstable(cases) ==
    IF cases = <<>> THEN <<>>
    ELSE LET done == SortByCase_unstable(SubSeq(cases, 1, Len(cases) - 1))
             x    == cases[Len(cases)]
             k    == Cardinality({i \in DOMAIN done : done[i].case < x.case})
         IN  SubSeq(done, 1, k) \o <<x>> \o SubSeq(done, k + 1, Len(done))

\* cases.sort(key=lambda x: x["case"]): a stable sort, by insertion.
RECURSIVE SortByCase(_)
SortByCase(cases) ==
    IF cases = <<>> THEN <<>>
    ELSE LET done == SortByCase(SubSeq(cases, 1, Len(cases) - 1))
             x    == cases[Len(cases)]
             k    == Cardinality({i \in DOMAIN done : done[i].case <= x.case})
         IN  SubSeq(done, 1, k) \o <<x>> \o SubSeq(done, k + 1, Len(done))

\* out[vnum] = cases
Put(out, vnum, cases) ==
    [k \in DOMAIN out \cup {vnum} |-> IF k = vnum THEN cases ELSE out[k]]

\* The loop over video* of base_dir.
RECURSIVE ScanVideos(_, _, _, _)
ScanVideos(f, base_dir, names, out) ==
    IF names = <<>> THEN out
    ELSE LET video_dir == base_dir \o <<Head(names)>>
             m_video   == VIDEO_DIR_RE(Head(names))
             cases     == ScanCases(f, base_dir, video_dir,
                              Sorted(Glob(f, video_dir, CaseLiteral, HtmlLiteral)))
             next      == IF ~IsDir(f, video_dir) THEN out
                          ELSE IF m_video = NoMatch THEN out
                          ELSE IF cases = <<>> THEN out
                          ELSE Put(out, ParseInt(m_video), SortByCase(cases))
         IN  ScanVideos(f, base_dir, Tail(names), next)

scan_language(f, base_dir) ==
    IF ~Exists(f, base_dir) THEN EmptyMap
    ELSE ScanVideos(f, base_dir, Sorted(Glob(f, base_dir, VideoLiteral, <<>>)),
                    EmptyMap)

\* --------------------------------------------------------------- arguments

Result == <<"r", "e", "s", "u", "l", "t">>

Html == <<"h", "t", "m", "l">>

\* --base-en and --base-ja: the defaults, as parts.
base_en == <<Result, Result \o <<"_", "e", "n">>, Html>>

base_ja == <<Result, Result \o <<"_", "j", "a">>, Html>>

IndexJson == <<"i", "n", "d", "e", "x", ".", "j", "s", "o", "n">>

\* --out: the default.
out_default == <<Result, IndexJson>>

Langs == {"en", "ja"}

Base(l) == IF l = "en" THEN base_en ELSE base_ja

\* ---------------------------------------------------------------- payload

\* sum(len(v) for v in m.values())
RECURSIVE SumLen(_, _)
SumLen(m, keys) ==
    IF keys = {} THEN 0
    ELSE LET k == CHOOSE x \in keys : TRUE
         IN  Len(m[k]) + SumLen(m, keys \ {k})

\* The count of the videos instead of the records.
counts_videos(m) == Cardinality(DOMAIN m)

counts(m) == SumLen(m, DOMAIN m)

\* The keys sorted as strings: "10" before "9".
RECURSIVE SortedItems_byString(_, _)
SortedItems_byString(m, keys) ==
    IF keys = {} THEN <<>>
    ELSE LET k == CHOOSE x \in keys :
                     \A y \in keys \ {x} : LexLess(Str(x), Str(y))
         IN  <<k>> \o SortedItems_byString(m, keys \ {k})

\* sorted(m.items()): by the integer key.
RECURSIVE SortedItems(_, _)
SortedItems(m, keys) ==
    IF keys = {} THEN <<>>
    ELSE LET k == CHOOSE x \in keys : \A y \in keys : x <= y
         IN  <<k>> \o SortedItems(m, keys \ {k})

\* {str(k): v for k, v in sorted(m.items())}: a dict keeps the order of
\* insertion, so the result is a sequence of <<key, list>>.
videos(m) ==
    LET ks == SortedItems(m, DOMAIN m)
    IN  [i \in DOMAIN ks |-> <<Str(ks[i]), m[ks[i]]>>]

\* The payload with the Japanese count taken from the English scan.
Payload_copyPaste(now, en, ja) ==
    << <<"generated_at", now>>,
       <<"base",   [en |-> as_posix(base_en), ja |-> as_posix(base_ja)]>>,
       <<"counts", [en |-> counts(en),        ja |-> counts(en)]>>,
       <<"videos", [en |-> videos(en),        ja |-> videos(ja)]>> >>

\* The payload of main, its top-level keys in the order json.dump writes
\* them.
Payload(now, en, ja) ==
    << <<"generated_at", now>>,
       <<"base",   [en |-> as_posix(base_en), ja |-> as_posix(base_ja)]>>,
       <<"counts", [en |-> counts(en),        ja |-> counts(ja)]>>,
       <<"videos", [en |-> videos(en),        ja |-> videos(ja)]>> >>

\* ------------------------------------------------------- mkdir and open

Prefixes(p) == {SubSeq(p, 1, k) : k \in 0..Len(p)}

\* mkdir(parents=True, exist_ok=True) raises when a part of the path is a
\* regular file.
MkdirBlocked(f, dir) == \E p \in Prefixes(dir) : IsFile(f, p)

MkdirParents(f, dir) ==
    [p \in DOMAIN f \cup Prefixes(dir) |-> IF p \in DOMAIN f THEN f[p] ELSE "dir"]

Absent == [st |-> "absent", doc |-> <<>>]

Old == [st |-> "old", doc |-> <<>>]

Truncated == [st |-> "truncated", doc |-> <<>>]

\* An open that empties the destination before it finds that it cannot
\* write there.
OpenW_truncatesFirst(f, p, content) ==
    IF IsDir(f, p) THEN [ok |-> FALSE, fs |-> f, content |-> Truncated]
    ELSE [ok      |-> TRUE,
          fs      |-> [q \in DOMAIN f \cup {p} |-> IF q = p THEN "file" ELSE f[q]],
          content |-> Truncated]

\* open("w"): raises on a directory and leaves everything as it was;
\* otherwise creates the file if needed and truncates it.
OpenW(f, p, content) ==
    IF IsDir(f, p) THEN [ok |-> FALSE, fs |-> f, content |-> content]
    ELSE [ok      |-> TRUE,
          fs      |-> [q \in DOMAIN f \cup {p} |-> IF q = p THEN "file" ELSE f[q]],
          content |-> Truncated]

\* json.dump writes the document piece by piece: n top-level keys reached
\* the file.
Written(doc, n) ==
    IF n = Len(doc) THEN [st |-> "complete", doc |-> doc]
    ELSE IF n = 0 THEN Truncated
    ELSE [st |-> "partial", doc |-> SubSeq(doc, 1, n)]

\* ------------------------------------------------- the trees the runs start from

video2 == VideoLiteral \o <<"2">>

video02 == VideoLiteral \o <<"0", "2">>

video9 == VideoLiteral \o <<"9">>

video10 == VideoLiteral \o <<"1", "0">>

video_old_video3 == VideoLiteral \o <<"_", "o", "l", "d", "_">> \o VideoLiteral \o <<"3">>

video2x == VideoLiteral \o <<"2", "x">>

case01 == CaseLiteral \o <<"0", "1">> \o HtmlLiteral

case1 == CaseLiteral \o <<"1">> \o HtmlLiteral

case2 == CaseLiteral \o <<"2">> \o HtmlLiteral

case10 == CaseLiteral \o <<"1", "0">> \o HtmlLiteral

CASE3 == <<"C", "A", "S", "E", "3">> \o HtmlLiteral

case_x_case1 == CaseLiteral \o <<"_", "x", "_">> \o CaseLiteral \o <<"1">> \o HtmlLiteral

notes_txt == <<"n", "o", "t", "e", "s", ".", "t", "x", "t">>

EnDirNames == {video2, video02, video9, video10, video_old_video3, video2x}

EnFileNames == {case01, case1, case2, case10, CASE3, case_x_case1, notes_txt}

JaDirNames == {video2, video10}

JaFileNames == {case2, case10}

Leaf(p, k) == [path |-> p, kind |-> k]

\* The entries a tree is made of: files in video directories, and the odd
\* ones (a file named like a video directory, a directory named like a case
\* file, an empty video directory, a base that is a file or empty, an older
\* index.json, a directory or a file in the way of the output).
Leaves ==
    {Leaf(base_en \o <<d, f>>, "file") : d \in EnDirNames, f \in EnFileNames}
    \cup {Leaf(base_ja \o <<d, f>>, "file") : d \in JaDirNames, f \in JaFileNames}
    \cup {Leaf(base_en \o <<video9>>, "file"),
          Leaf(base_en \o <<video2, case2>>, "dir"),
          Leaf(base_en \o <<video10>>, "dir"),
          Leaf(base_en, "file"),
          Leaf(base_ja, "file"),
          Leaf(base_ja, "dir"),
          Leaf(out_default, "file"),
          Leaf(out_default, "dir"),
          Leaf(<<Result>>, "file")}

MaxFiles == 2

MaxRerunFiles == 1

MaxClock == 1

\* No entry lies on the path of another.
Consistent(T) ==
    \A a \in T : \A b \in T : a # b => ~IsPrefix(a.path, b.path)

\* The consistent sets of at most n entries.
RECURSIVE Trees(_)
Trees(n) ==
    IF n = 0 THEN {{}}
    ELSE LET less == Trees(n - 1)
             more == {T \cup {a} : T \in less, a \in Leaves}
         IN  less \cup {T \in more : Consistent(T)}

\* The file system holding the entries of T and the directories above them.
TreeFs(T) ==
    LET leafAt(p) == CHOOSE a \in T : a.path = p
        paths     == UNION {Prefixes(a.path) : a \in T} \cup {<<>>}
    IN  [p \in paths |-> IF \E a \in T : a.path = p THEN leafAt(p).kind ELSE "dir"]

\* --out, as parts: the default, a file beside the video directories, and
\* four places inside video directories.
OutChoices ==
    {out_default,
     base_en \o <<IndexJson>>,
     base_en \o <<video2, case2>>,
     base_ja \o <<video10, IndexJson>>,
     base_en \o <<video02, case1>>,
     base_en \o <<video2x, case1>>}

\* ------------------------------------------------------------------ state

VARIABLES fs, out_path, pc, failedAt, en_map, ja_map, payload, clock, outFile, startFile, lastRun

vars == <<fs, out_path, pc, failedAt, en_map, ja_map, payload, clock, outFile, startFile, lastRun>>

NoRun == [ok |-> FALSE, doc |-> <<>>, hadOut |-> FALSE]

InitWith(T, o) ==
    /\ fs = TreeFs(T)
    /\ out_path = o
    /\ pc = "mkdir"
    /\ failedAt = "none"
    /\ en_map = EmptyMap
    /\ ja_map = EmptyMap
    /\ payload = <<>>
    /\ clock = 0
    /\ outFile = IF IsFile(TreeFs(T), o) THEN Old ELSE Absent
    /\ startFile = outFile
    /\ lastRun = NoRun

Init == \E T \in Trees(MaxFiles) : InitWith(T, out_default)

InitRerun == \E T \in Trees(MaxRerunFiles) : \E o \in OutChoices : InitWith(T, o)

\* ---------------------------------------------------------------- actions

Fail(step) ==
    /\ pc' = "failed"
    /\ failedAt' = step

\* out_path.parent.mkdir(parents=True, exist_ok=True)
Mkdir ==
    /\ pc = "mkdir"
    /\ \/ /\ ~MkdirBlocked(fs, Parent(out_path))
          /\ fs' = MkdirParents(fs, Parent(out_path))
          /\ pc' = "scan_en"
          /\ UNCHANGED failedAt
       \/ /\ MkdirBlocked(fs, Parent(out_path))
          /\ Fail("mkdir")
          /\ UNCHANGED fs
    /\ UNCHANGED <<out_path, en_map, ja_map, payload, clock, outFile, startFile, lastRun>>

\* The file system refuses in the middle of mkdir: some of the missing
\* directories were made.
MkdirError ==
    /\ pc = "mkdir"
    /\ ~MkdirBlocked(fs, Parent(out_path))
    /\ \E k \in 0..(Len(out_path) - 2) :
          fs' = MkdirParents(fs, SubSeq(out_path, 1, k))
    /\ Fail("mkdir")
    /\ UNCHANGED <<out_path, en_map, ja_map, payload, clock, outFile, startFile, lastRun>>

\* en_map = scan_language(base_en)
ScanEn ==
    /\ pc = "scan_en"
    /\ en_map' = scan_language(fs, base_en)
    /\ pc' = "scan_ja"
    /\ UNCHANGED <<fs, out_path, failedAt, ja_map, payload, clock, outFile, startFile, lastRun>>

\* ja_map = scan_language(base_ja)
ScanJa ==
    /\ pc = "scan_ja"
    /\ ja_map' = scan_language(fs, base_ja)
    /\ pc' = "assemble"
    /\ UNCHANGED <<fs, out_path, failedAt, en_map, payload, clock, outFile, startFile, lastRun>>

\* A listing or a stat fails (an I/O error): the exception leaves main.
ScanError ==
    /\ pc \in {"scan_en", "scan_ja"}
    /\ Fail(pc)
    /\ UNCHANGED <<fs, out_path, en_map, ja_map, payload, clock, outFile, startFile, lastRun>>

\* payload = {...}, with datetime.now(timezone.utc) read once.
Assemble ==
    /\ pc = "assemble"
    /\ \E now \in clock..MaxClock :
          /\ clock' = now
          /\ payload' = Payload(now, en_map, ja_map)
    /\ pc' = "open"
    /\ UNCHANGED <<fs, out_path, failedAt, en_map, ja_map, outFile, startFile, lastRun>>

\* out_path.open("w", encoding="utf-8")
Open ==
    /\ pc = "open"
    /\ LET r == OpenW(fs, out_path, outFile)
       IN  /\ fs' = r.fs
           /\ outFile' = r.content
           /\ \/ r.ok /\ pc' = "dump" /\ UNCHANGED failedAt
              \/ ~r.ok /\ Fail("open")
    /\ UNCHANGED <<out_path, en_map, ja_map, payload, clock, startFile, lastRun>>

\* open refuses (permission, no space for a new file): nothing is touched.
OpenError ==
    /\ pc = "open"
    /\ Fail("open")
    /\ UNCHANGED <<fs, out_path, en_map, ja_map, payload, clock, outFile, startFile, lastRun>>

\* json.dump(payload, f, ...), the close of the file and the print.
Dump ==
    /\ pc = "dump"
    /\ outFile' = Written(payload, Len(payload))
    /\ pc' = "done"
    /\ UNCHANGED <<fs, out_path, failedAt, en_map, ja_map, payload, clock, startFile, lastRun>>

\* A write fails (disk full, I/O error) after n of the top-level keys.
DumpError ==
    /\ pc = "dump"
    /\ \E n \in 0..(Len(payload) - 1) : outFile' = Written(payload, n)
    /\ Fail("dump")
    /\ UNCHANGED <<fs, out_path, en_map, ja_map, payload, clock, startFile, lastRun>>

\* The tool is started again after a run that succeeded, on the tree as that
\* run left it.
Rerun ==
    /\ pc = "done"
    /\ lastRun' = [ok |-> TRUE, doc |-> payload, hadOut |-> startFile.st # "absent"]
    /\ startFile' = outFile
    /\ pc' = "mkdir"
    /\ failedAt' = "none"
    /\ en_map' = EmptyMap
    /\ ja_map' = EmptyMap
    /\ payload' = <<>>
    /\ UNCHANGED <<fs, out_path, clock, outFile>>

Next ==
    \/ Mkdir
    \/ MkdirError
    \/ ScanEn
    \/ ScanJa
    \/ ScanError
    \/ Assemble
    \/ Open
    \/ OpenError
    \/ Dump
    \/ DumpError

Spec == Init /\ [][Next]_vars

NextRerun == Next \/ Rerun

SpecRerun == InitRerun /\ [][NextRerun]_vars

\* ----------------------------------------------------------- the claims

Map(l) == IF l = "en" THEN en_map ELSE ja_map

Assembled == payload # <<>>

Scanned(l) ==
    \/ pc \in {"assemble", "open", "dump", "done"}
    \/ pc = "scan_ja" /\ l = "en"
    \/ pc = "failed" /\ failedAt \in {"open", "dump"}
    \/ pc = "failed" /\ failedAt = "scan_ja" /\ l = "en"

DocCounts(doc, l) == doc[3][2][l]

DocVideos(doc, l) == doc[4][2][l]

ChildNames(f, dir) ==
    {Name(q) : q \in {r \in DOMAIN f : Len(r) = Len(dir) + 1 /\ Parent(r) = dir}}

\* The directories and the files the filters of scan_language let through.
AcceptedDirs(l) ==
    {d \in Glob(fs, Base(l), VideoLiteral, <<>>) :
        IsDir(fs, Base(l) \o <<d>>) /\ VIDEO_DIR_RE(d) # NoMatch}

AcceptedFiles(l, d) ==
    {n \in Glob(fs, Base(l) \o <<d>>, CaseLiteral, HtmlLiteral) :
        IsFile(fs, Base(l) \o <<d, n>>) /\ CASE_FILE_RE(n) # NoMatch}

\* The naming convention, on the whole name.
AllDigits(s) == Len(s) >= 1 /\ \A i \in DOMAIN s : IsDigit(s[i])

IsVideoName(n) ==
    /\ Len(n) > Len(VideoLiteral)
    /\ SubSeq(n, 1, Len(VideoLiteral)) = VideoLiteral
    /\ AllDigits(SubSeq(n, Len(VideoLiteral) + 1, Len(n)))

VideoNumber(n) == ParseInt(SubSeq(n, Len(VideoLiteral) + 1, Len(n)))

IsCaseName(n) ==
    /\ Len(n) > Len(CaseLiteral) + Len(HtmlLiteral)
    /\ SubSeq(n, 1, Len(CaseLiteral)) = CaseLiteral
    /\ SubSeq(n, Len(n) - Len(HtmlLiteral) + 1, Len(n)) = HtmlLiteral
    /\ AllDigits(SubSeq(n, Len(CaseLiteral) + 1, Len(n) - Len(HtmlLiteral)))

IsCaseNameAnyCase(n) == IsCaseName(LowerName(n))

RECURSIVE SumSeqLens(_)
SumSeqLens(vs) ==
    IF vs = <<>> THEN 0 ELSE Len(Head(vs)[2]) + SumSeqLens(Tail(vs))

\* The input tree: the file system without the output file.
InputIs(T) ==
    /\ DOMAIN fs \ {out_path} = DOMAIN TreeFs(T) \ {out_path}
    /\ \A p \in DOMAIN fs \ {out_path} : fs[p] = TreeFs(T)[p]

\* C1: with the default arguments, on the tree that holds exactly
\* result/result_en/html/video2/case01.html and .../video2/case2.html, the
\* built document has counts.en = 2, counts.ja = 0, videos.ja = {} and
\* videos.en = {"2": [case 1, case01.html, result/result_en/html/video2/case01.html;
\* case 2, case2.html, result/result_en/html/video2/case2.html]}: each relpath
\* begins with the "result" part.
C1_Scenario ==
    (/\ pc = "done"
     /\ out_path = out_default
     /\ InputIs({Leaf(base_en \o <<video2, case01>>, "file"),
                 Leaf(base_en \o <<video2, case2>>, "file")}))
    => /\ outFile.st = "complete"
       /\ DocCounts(outFile.doc, "en") = 2
       /\ DocCounts(outFile.doc, "ja") = 0
       /\ DocVideos(outFile.doc, "ja") = <<>>
       /\ DocVideos(outFile.doc, "en") =
            << << <<"2">>,
                  << [case     |-> 1,
                      filename |-> case01,
                      relpath  |-> as_posix(base_en \o <<video2, case01>>)],
                     [case     |-> 2,
                      filename |-> case2,
                      relpath  |-> as_posix(base_en \o <<video2, case2>>)] >> >> >>

\* C2: in the built document, for each language, counts.<lang> is the sum
\* of the lengths of the record lists of videos.<lang>.
C2_CountsMatchVideos ==
    /\ Assembled =>
         \A l \in Langs : DocCounts(payload, l) = SumSeqLens(DocVideos(payload, l))
    /\ outFile.st = "complete" =>
         \A l \in Langs :
            DocCounts(outFile.doc, l) = SumSeqLens(DocVideos(outFile.doc, l))

\* C2, witness: a written document whose English tree holds one video with
\* two records (the count is of records, not of videos) and whose Japanese
\* tree holds none.
C2_Witness ==
    /\ pc = "done"
    /\ outFile.st = "complete"
    /\ DocCounts(outFile.doc, "en") = 2
    /\ Len(DocVideos(outFile.doc, "en")) = 1
    /\ DocCounts(outFile.doc, "ja") = 0

\* The step that has just returned the scan of language l.
JustScanned(l) == pc = (IF l = "en" THEN "scan_ja" ELSE "assemble")

\* C3: every record list that scan_language returns is non-decreasing by
\* case number; the records of one case number stand in lexicographic order
\* of their (distinct) file names; each case number is the one its file name
\* parses to; and the list holds one record for every file of its directory
\* that passed the filters: none is dropped as a duplicate.
C3_SortedAndRetained ==
    \A l \in Langs :
      JustScanned(l) =>
        \A k \in DOMAIN Map(l) :
          LET cs    == Map(l)[k]
              names == {cs[i].filename : i \in DOMAIN cs}
          IN  /\ \A i \in DOMAIN cs : \A j \in DOMAIN cs :
                    i < j => /\ cs[i].case <= cs[j].case
                             /\ cs[i].case = cs[j].case
                                  => LexLess(cs[i].filename, cs[j].filename)
              /\ \A i \in DOMAIN cs :
                    cs[i].case = ParseInt(CASE_FILE_RE(cs[i].filename))
              /\ \E d \in AcceptedDirs(l) :
                    /\ ParseInt(VIDEO_DIR_RE(d)) = k
                    /\ names = AcceptedFiles(l, d)
                    /\ Len(cs) = Cardinality(names)

\* C3, witness: a scanned video whose list holds case01.html and case1.html,
\* both as case 1.
C3_Witness ==
    /\ Scanned("en")
    /\ \E k \in DOMAIN en_map :
          /\ Len(en_map[k]) = 2
          /\ en_map[k][1].case = 1 /\ en_map[k][1].filename = case01
          /\ en_map[k][2].case = 1 /\ en_map[k][2].filename = case1

\* C4: in the built document the keys of videos.<lang> are the decimal
\* strings of the scanned video numbers, each with its record list, in
\* ascending order of their numeric value.
C4_KeysNumericOrder ==
    Assembled =>
      \A l \in Langs :
        LET vs == DocVideos(payload, l)
        IN  /\ \A i \in DOMAIN vs :
                  /\ AllDigits(vs[i][1])
                  /\ Len(vs[i][1]) > 1 => vs[i][1][1] # "0"
                  /\ ParseInt(vs[i][1]) \in DOMAIN Map(l)
                  /\ vs[i][2] = Map(l)[ParseInt(vs[i][1])]
            /\ \A i \in DOMAIN vs : \A j \in DOMAIN vs :
                  i < j => ParseInt(vs[i][1]) < ParseInt(vs[j][1])
            /\ Len(vs) = Cardinality(DOMAIN Map(l))

\* C4, witness: video9 and video10 both hold a matching file, and the
\* written document lists "9" before "10".
C4_Witness ==
    /\ pc = "done"
    /\ outFile.st = "complete"
    /\ Len(DocVideos(outFile.doc, "en")) = 2
    /\ DocVideos(outFile.doc, "en")[1][1] = <<"9">>
    /\ DocVideos(outFile.doc, "en")[2][1] = <<"1", "0">>

\* C5: when the base directory of a language does not exist or is not a
\* directory, its scan is the empty mapping, and the document has count 0
\* and no videos for that language.
C5_AbsentBaseIsEmpty ==
    \A l \in Langs :
        ~IsDir(fs, Base(l)) =>
            /\ Map(l) = EmptyMap
            /\ Assembled => /\ DocCounts(payload, l) = 0
                            /\ DocVideos(payload, l) = <<>>
            /\ outFile.st = "complete" => /\ DocCounts(outFile.doc, l) = 0
                                          /\ DocVideos(outFile.doc, l) = <<>>

\* C5, witness: a run that completed although the Japanese base is a
\* regular file, with the English tree counted.
C5_Witness ==
    /\ pc = "done"
    /\ outFile.st = "complete"
    /\ IsFile(fs, base_ja)
    /\ DocCounts(outFile.doc, "en") > 0
    /\ DocCounts(outFile.doc, "ja") = 0

\* C6: a regular file directly in a video directory (one whose number no
\* other scanned directory shares) whose name is "case", digits, ".html"
\* when letter case is ignored has a record, under its name as on disk, in
\* that video's list.
C6_CaseInsensitive ==
    \A l \in Langs :
        Scanned(l) =>
          \A d \in ChildNames(fs, Base(l)) :
            (/\ IsDir(fs, Base(l) \o <<d>>)
             /\ IsVideoName(d)
             /\ \A e \in AcceptedDirs(l) :
                   ParseInt(VIDEO_DIR_RE(e)) = VideoNumber(d) => e = d)
            => \A n \in ChildNames(fs, Base(l) \o <<d>>) :
                 (IsFile(fs, Base(l) \o <<d, n>>) /\ IsCaseNameAnyCase(n))
                 => /\ VideoNumber(d) \in DOMAIN Map(l)
                    /\ \E i \in DOMAIN Map(l)[VideoNumber(d)] :
                          Map(l)[VideoNumber(d)][i].filename = n

\* C7: every key of a scan comes from a directory whose whole name is
\* "video" and digits, and every record from a file whose whole name is
\* "case", digits and ".html".
C7_OnlyConventionalNames ==
    \A l \in Langs : \A k \in DOMAIN Map(l) :
        /\ \E d \in ChildNames(fs, Base(l)) :
              /\ IsDir(fs, Base(l) \o <<d>>)
              /\ IsVideoName(d)
              /\ VideoNumber(d) = k
        /\ \A i \in DOMAIN Map(l)[k] : IsCaseNameAnyCase(Map(l)[k][i].filename)

\* C8: a run that ends in a file-system failure, at whatever step, leaves
\* the destination as it was before the run (its old content, or absent).
C8_NoPartialIndex == pc = "failed" => outFile = startFile

\* C8, amended: a run that fails while creating the directories, scanning
\* or opening the output leaves the destination as it was; a run that fails
\* while writing leaves it truncated or partly written.
C8_FailureBeforeWriting ==
    pc = "failed" =>
        /\ failedAt \in {"mkdir", "scan_en", "scan_ja", "open"} => outFile = startFile
        /\ failedAt = "dump" => outFile.st \in {"truncated", "partial"}

\* C8, witness: open failed on a destination that held an older index.
C8_Witness ==
    /\ pc = "failed"
    /\ failedAt = "open"
    /\ startFile = Old
    /\ outFile = Old

\* The documents of two runs agree in every field but generated_at.
SameButTimestamp(a, b) ==
    /\ Len(a) = Len(b)
    /\ \A i \in 2..Len(a) : a[i] = b[i]

\* The destination is a place the scans read: a name with "case", digits
\* and ".html" at its end (and "case" at its start), in a directory with
\* "video" and digits at the end of its name (and "video" at its start),
\* directly below a base directory.
EndsLikeVideo(n) ==
    \E i \in 1..Len(n) : IsVideoName(SubSeq(n, i, Len(n)))

EndsLikeCase(n) ==
    \E i \in 1..Len(n) : IsCaseNameAnyCase(SubSeq(n, i, Len(n)))

OutIsScanned ==
    \E l \in Langs :
        /\ Len(out_path) = Len(Base(l)) + 2
        /\ IsPrefix(Base(l), out_path)
        /\ FnMatch(out_path[Len(out_path) - 1], VideoLiteral, <<>>)
        /\ EndsLikeVideo(out_path[Len(out_path) - 1])
        /\ FnMatch(Name(out_path), CaseLiteral, HtmlLiteral)
        /\ EndsLikeCase(Name(out_path))

\* C9: two runs in succession with the same arguments write documents that
\* agree in every field but generated_at, wherever --out points.
C9_Idempotent ==
    (pc = "done" /\ lastRun.ok) => SameButTimestamp(outFile.doc, lastRun.doc)

\* C9, amended: two runs in succession write documents that agree in every
\* field but generated_at, unless the destination is a file the scan itself
\* picks up that did not exist before the first of the two runs.
C9_IdempotentUnlessOutScanned ==
    (pc = "done" /\ lastRun.ok /\ ~(OutIsScanned /\ ~lastRun.hadOut))
    => SameButTimestamp(outFile.doc, lastRun.doc)

\* C9, witness: a second run, at a later time, that wrote into a video
\* directory of the English tree and counted its files as the first did.
C9_Witness ==
    /\ pc = "done"
    /\ lastRun.ok
    /\ IsPrefix(base_en, out_path)
    /\ Len(out_path) = Len(base_en) + 2
    /\ outFile.doc[1] # lastRun.doc[1]
    /\ DocCounts(outFile.doc, "en") > 0
    /\ SameButTimestamp(outFile.doc, lastRun.doc)

\* C10: counts.<lang> is the number of regular files that pass the case
\* filter in the directories that pass the video filter: no such file is
\* lost, also when two directories parse to the same video number.
C10_NoFileLost ==
    Assembled =>
      \A l \in Langs :
        DocCounts(payload, l) =
          Cardinality(UNION {{<<d, n>> : n \in AcceptedFiles(l, d)} :
                                d \in AcceptedDirs(l)})

====
